---- MODULE Spec2Model ----
(***************************************************************************)
(* Model of the AS3935 lightning monitor (src/src/main.cpp): the main      *)
(* cycle loop(), the interrupt service routine onAs3935Interrupt(), the    *)
(* bounded event history and the query handlers served from the cycle.     *)
(*                                                                         *)
(* The ISR writes irqFlag and nothing else, so loop() is split into steps   *)
(* exactly where it reads or writes irqFlag: the ISR may run between any   *)
(* two steps, and running it inside a step would change nothing the step   *)
(* sees.  The critical section noInterrupts(); irqFlag = false;            *)
(* interrupts(); is one step.  The wall clock and the tick counter are     *)
(* inputs: every reading draws a value.                                    *)
(***************************************************************************)
EXTENDS Integers, Sequences, FiniteSets, TLC

(***************************************************************************)
(* Bounds of the model.                                                    *)
(***************************************************************************)
\* Capacity used for HISTORY_MAX (the source has 2000).
HistoryCap == 2
\* The wall clock takes the values 0, ClockStep and 2 * ClockStep.
ClockStep == 50000

(***************************************************************************)
(* Program constants.                                                      *)
(***************************************************************************)
HISTORY_MAX == HistoryCap
RETENTION_SECONDS == 24 * 3600
POLL_INTERVAL_MS == 10000
DEFAULT_SINCE == 3600
DISTANCE_INIT == 63
UINT8 == 256
\* A uint32_t is kept as <<high half, low half>>, each half in 0..HALF-1,
\* its value being high * HALF + low.
HALF == 65536

(***************************************************************************)
(* Values the environment can deliver.                                     *)
(***************************************************************************)
\* time(nullptr): between two readings the wall clock may stand still,
\* advance or be set back (NTP), so every reading draws any of these values.
ClockValues == {0, ClockStep, 2 * ClockStep}
\* millis(): a 32-bit tick counter that wraps around, so every reading draws
\* any of these values: 0, the poll interval, and the last tick before the wrap.
MillisValues == {<<0, 0>>, <<0, POLL_INTERVAL_MS>>, <<HALF - 1, HALF - 1>>}
\* lightning.readInterruptReg(): 0 none, 1 noise, 4 disturber, 8 lightning;
\* the code treats every nonzero value alike, 1 and 8 stand for them.
IntSrcCodes == {0, 1, 8}
\* lightning.distanceToStorm() and lightning.lightningEnergy().
Distances == {5, 63}
Energies == {7}
\* What the sensor delivers in one run: every kind of interrupt with the
\* storm at one distance, or lightning only with the storm near or out of range.
SensorRuns ==
  { [codes |-> IntSrcCodes, distances |-> {5}],
    [codes |-> {0, 8}, distances |-> Distances] }
\* The "since" argument of /api/events: absent, or the integer toInt() gives.
NoArg == -1000000
SinceArgs == {NoArg, -1, 0, RETENTION_SECONDS}

\* The "range" argument of /api/stats: server.arg() gives "" when it is
\* absent; "hour" stands for every value other than "day".
RangeArgs == {"", "day", "hour"}

Idle == [path |-> "none"]
NoResponse == [kind |-> "none"]

VARIABLES
  pc,              \* position of loop()
  irqFlag,         \* volatile bool irqFlag
  AS3935_irq,      \* static bool AS3935_irq
  AS3935_started,  \* static bool AS3935_started
  sensor,          \* the codes and distances the sensor delivers in this run
  history,         \* std::deque<LightningEvent> history
  lastDistance, lastEnergy, lastEventTs, lastEvent,
  tLastPoll,       \* static uint32_t tLastPoll
  leds,            \* the four LED outputs
  now,             \* local of loop(): its reading of time(nullptr)
  intSrc,          \* local of loop(): its reading of the interrupt register
  request,         \* the request served in this cycle
  response,        \* the reply of the request served in this cycle
  polledAt,        \* ghost: what millis() returned to the poll test of the cycle just run
  edge,            \* ghost: age of the oldest edge not yet followed by a source read
  dropped,         \* ghost: an append of the cycle just run removed the head entry
  clockSeen,       \* ghost: the clock readings of loop() so far, whether any went back
  pollSeen,        \* ghost: the last poll-path append, and the source reads since
  owed             \* ghost: the event codes of interrupt entries not yet confirmed by a poll entry

vars == <<pc, irqFlag, AS3935_irq, AS3935_started, sensor, history, lastDistance,
          lastEnergy, lastEventTs, lastEvent, tLastPoll, leds, now, intSrc,
          request, response, polledAt, edge, dropped, clockSeen, pollSeen, owed>>

status == <<lastDistance, lastEnergy, lastEventTs, lastEvent, leds>>
ghosts == <<edge, dropped>>

(***************************************************************************)
(* Pure functions of the program.                                          *)
(***************************************************************************)
\* The initialiser with distance and energy in each other's place.
LightningEventEnergyFirst(t, d, e, ev, i) ==
  [ts |-> t, distance |-> e, energy |-> d, event |-> ev, irq |-> i]
\* struct LightningEvent { ts; distance; energy; event; irq; }
LightningEvent(t, d, e, ev, i) ==
  [ts |-> t, distance |-> d, energy |-> e, event |-> ev, irq |-> i]

\* The eviction with if in place of while: one entry at most per call.
trimHistoryOnce(h, cutoff) ==
  IF h # <<>> /\ Head(h).ts < cutoff THEN Tail(h) ELSE h
\* while (!history.empty() && history.front().ts < cutoff) history.pop_front();
RECURSIVE trimHistoryOlderThan(_, _)
trimHistoryOlderThan(h, cutoff) ==
  IF h # <<>> /\ Head(h).ts < cutoff
    THEN trimHistoryOlderThan(Tail(h), cutoff)
    ELSE h

\* The append at the wrong end (push_front), room made at the tail.
pushHistoryFront(h, e) ==
  IF Len(h) >= HISTORY_MAX THEN <<e>> \o SubSeq(h, 1, Len(h) - 1) ELSE <<e>> \o h
\* The append with the capacity test off by one (size > HISTORY_MAX).
pushHistoryOffByOne(h, e) ==
  IF Len(h) > HISTORY_MAX THEN Append(Tail(h), e) ELSE Append(h, e)
\* The append making room at the wrong end (pop_back).
pushHistoryDropNewest(h, e) ==
  IF Len(h) >= HISTORY_MAX THEN Append(SubSeq(h, 1, Len(h) - 1), e) ELSE Append(h, e)
\* if (history.size() >= HISTORY_MAX) history.pop_front(); history.push_back(e);
pushHistory(h, e) ==
  IF Len(h) >= HISTORY_MAX THEN Append(Tail(h), e) ELSE Append(h, e)

\* The switch with distance 0 (storm overhead) lit like distance 1.
setLedsOverheadAtZero(km) ==
  CASE km = 63 -> <<FALSE, FALSE, FALSE, FALSE>>
    [] km = 40 -> <<TRUE,  FALSE, FALSE, FALSE>>
    [] km = 37 -> <<FALSE, TRUE,  FALSE, FALSE>>
    [] km = 34 -> <<TRUE,  TRUE,  FALSE, FALSE>>
    [] km = 31 -> <<FALSE, FALSE, TRUE,  FALSE>>
    [] km = 27 -> <<TRUE,  FALSE, TRUE,  FALSE>>
    [] km = 24 -> <<FALSE, TRUE,  TRUE,  FALSE>>
    [] km = 20 -> <<TRUE,  TRUE,  TRUE,  FALSE>>
    [] km = 17 -> <<FALSE, FALSE, FALSE, TRUE>>
    [] km = 14 -> <<TRUE,  FALSE, FALSE, TRUE>>
    [] km = 12 -> <<FALSE, TRUE,  FALSE, TRUE>>
    [] km = 10 -> <<TRUE,  TRUE,  FALSE, TRUE>>
    [] km = 8  -> <<FALSE, FALSE, TRUE,  TRUE>>
    [] km = 6  -> <<TRUE,  FALSE, TRUE,  TRUE>>
    [] km = 5  -> <<FALSE, TRUE,  TRUE,  TRUE>>
    [] km \in {0, 1} -> <<TRUE,  TRUE,  TRUE,  TRUE>>
    [] OTHER   -> <<FALSE, FALSE, FALSE, FALSE>>
\* The switch of setLedsForDistance: <<l1, l2, l3, l4>>.
setLedsForDistance(km) ==
  CASE km = 63 -> <<FALSE, FALSE, FALSE, FALSE>>
    [] km = 40 -> <<TRUE,  FALSE, FALSE, FALSE>>
    [] km = 37 -> <<FALSE, TRUE,  FALSE, FALSE>>
    [] km = 34 -> <<TRUE,  TRUE,  FALSE, FALSE>>
    [] km = 31 -> <<FALSE, FALSE, TRUE,  FALSE>>
    [] km = 27 -> <<TRUE,  FALSE, TRUE,  FALSE>>
    [] km = 24 -> <<FALSE, TRUE,  TRUE,  FALSE>>
    [] km = 20 -> <<TRUE,  TRUE,  TRUE,  FALSE>>
    [] km = 17 -> <<FALSE, FALSE, FALSE, TRUE>>
    [] km = 14 -> <<TRUE,  FALSE, FALSE, TRUE>>
    [] km = 12 -> <<FALSE, TRUE,  FALSE, TRUE>>
    [] km = 10 -> <<TRUE,  TRUE,  FALSE, TRUE>>
    [] km = 8  -> <<FALSE, FALSE, TRUE,  TRUE>>
    [] km = 6  -> <<TRUE,  FALSE, TRUE,  TRUE>>
    [] km = 5  -> <<FALSE, TRUE,  TRUE,  TRUE>>
    [] km = 1  -> <<TRUE,  TRUE,  TRUE,  TRUE>>
    [] OTHER   -> <<FALSE, FALSE, FALSE, FALSE>>

\* The loop of handleEvents: from the newest entry backwards, stopping at the
\* first entry older than the cutoff.
RECURSIVE eventsFrom(_, _, _)
eventsFrom(h, i, cutoff) ==
  IF i = 0 THEN <<>>
  ELSE IF h[i].ts < cutoff THEN <<>>
  ELSE <<h[i]>> \o eventsFrom(h, i - 1, cutoff)

\* The entries in the window walked from begin() to end(), oldest first.
RECURSIVE recentEventsOldestFirst(_, _)
recentEventsOldestFirst(h, cutoff) ==
  IF h = <<>> THEN <<>>
  ELSE IF Head(h).ts < cutoff THEN recentEventsOldestFirst(Tail(h), cutoff)
  ELSE <<Head(h)>> \o recentEventsOldestFirst(Tail(h), cutoff)
\* for (auto it = history.rbegin(); it != history.rend(); ++it) { ... }
recentEvents(h, cutoff) == eventsFrom(h, Len(h), cutoff)

\* The default taken for a zero argument only (sinceSec == 0).
eventsSinceSecZeroOnly(arg) ==
  IF arg = NoArg THEN DEFAULT_SINCE
  ELSE IF arg = 0 THEN DEFAULT_SINCE ELSE arg
\* long sinceSec = 3600; if (hasArg) { sinceSec = toInt(); if (sinceSec <= 0) sinceSec = 3600; }
eventsSinceSec(arg) ==
  IF arg = NoArg THEN DEFAULT_SINCE
  ELSE IF arg <= 0 THEN DEFAULT_SINCE ELSE arg

\* String range = server.arg("range"); sinceSec = (range == "day") ? 24*3600 : 3600;
statsSinceSec(range) == IF range = "day" THEN 24 * 3600 ELSE 3600

\* The distance test with the near limit taken exclusive (distance < 5).
bucketOfNearExclusive(d) ==
  IF d = 63 THEN "oor"
  ELSE IF d < 5 THEN "near"
  ELSE IF d <= 15 THEN "mid"
  ELSE "far"
\* if (e.distance == 63) oor; else if (e.distance <= 5) near;
\* else if (e.distance <= 15) mid; else far_;
bucketOf(d) ==
  IF d = 63 THEN "oor"
  ELSE IF d <= 5 THEN "near"
  ELSE IF d <= 15 THEN "mid"
  ELSE "far"

NoStats == [count |-> 0, near |-> 0, mid |-> 0, far |-> 0, oor |-> 0]
\* The loop body without its last else: a far entry is counted in no bucket.
addToStatsWithoutFar(s, e) ==
  LET b == bucketOf(e.distance)
  IN IF b = "far" THEN [s EXCEPT !.count = @ + 1]
     ELSE [s EXCEPT !.count = @ + 1, ![b] = @ + 1]
\* cnt++; and the bucket of the entry's distance ++
addToStats(s, e) ==
  [s EXCEPT !.count = @ + 1, ![bucketOf(e.distance)] = @ + 1]

\* for (const auto &e : history) { if (e.ts < cutoff) continue; ... }
RECURSIVE statsFrom(_, _, _)
statsFrom(h, s, cutoff) ==
  IF h = <<>> THEN s
  ELSE IF Head(h).ts < cutoff THEN statsFrom(Tail(h), s, cutoff)
  ELSE statsFrom(Tail(h), addToStats(s, Head(h)), cutoff)

\* (uint32_t)(millis() / 1000) of a tick count kept in halves.
uptimeSeconds(m) ==
  (m[1] \div 1000) * HALF + (((m[1] % 1000) * HALF + m[2]) \div 1000)

\* a - b in uint32_t arithmetic (modulo 2^32).
sub32(a, b) ==
  LET borrow == IF a[2] < b[2] THEN 1 ELSE 0
  IN <<(a[1] - b[1] - borrow) % HALF, (a[2] - b[2]) % HALF>>

\* The test with >= in place of >.
pollDueAtInterval(m, t) ==
  LET d == sub32(m, t) IN d[1] > 0 \/ d[2] >= POLL_INTERVAL_MS
\* millis() - tLastPoll > 10000
pollDue(m, t) ==
  LET d == sub32(m, t) IN d[1] > 0 \/ d[2] > POLL_INTERVAL_MS

\* Ghost: loop() reads the clock; a reading below the one before it went back.
SeeClock(seen, clock) ==
  IF seen.mode # "up" THEN seen
  ELSE IF clock < seen.last THEN [mode |-> "back"]
  ELSE [mode |-> "up", last |-> clock]

\* Ghost: the poll path appends; its test (line 727) read the tick test,
\* and tLastPoll takes the tick read at line 731.  The ghost keeps the tick
\* taken at the append before this one.
NotePoll(seen, test, tick) ==
  IF seen.mode = "off" THEN seen
  ELSE [mode |-> "on", polls |-> IF seen.polls < 2 THEN seen.polls + 1 ELSE 2,
        prev |-> seen.at, test |-> test, at |-> tick, read |-> FALSE]
\* Ghost: readInterruptReg() returns a code.
NoteRead(seen, code) ==
  IF seen.mode = "off" \/ code = 0 THEN seen ELSE [seen EXCEPT !.read = TRUE]
NoPollSeen ==
  [mode |-> "on", polls |-> 0, prev |-> <<0, 0>>, test |-> <<0, 0>>,
   at |-> <<0, 0>>, read |-> FALSE]

\* Ghost: the interrupt path appends an entry with this event code.
Owe(o, code) ==
  IF o.mode = "off" THEN o ELSE [o EXCEPT !.codes = @ \cup {code}]
\* Ghost: the poll path appends an entry with this event code.
Confirm(o, code) ==
  IF o.mode = "off" THEN o ELSE [o EXCEPT !.codes = @ \ {code}]

\* Ghost: the cycle ends while an edge is still waiting for its source read.
AgeEdge(e) ==
  CASE e = "cur" -> "prev"
    [] e = "prev" -> "lost"
    [] OTHER -> e

(***************************************************************************)
(* Initial state: the globals as initialised, after setup().  The sensor   *)
(* started or failed to (initAS3935).  The ghost edge is switched on by    *)
(* the specification that needs it.                                        *)
(***************************************************************************)
InitProgram ==
  /\ pc = "handleClient"
  /\ irqFlag = FALSE
  /\ AS3935_irq = FALSE
  /\ AS3935_started \in BOOLEAN
  /\ sensor \in SensorRuns
  /\ history = <<>>
  /\ lastDistance = DISTANCE_INIT
  /\ lastEnergy = 0
  /\ lastEventTs = 0
  /\ lastEvent = 0
  /\ tLastPoll = <<0, 0>>
  /\ leds = setLedsForDistance(DISTANCE_INIT)
  /\ now = 0
  /\ intSrc = 0
  /\ request = Idle
  /\ response = NoResponse
  /\ polledAt = <<0, 0>>
  /\ dropped = FALSE

GhostsOff == pollSeen = [mode |-> "off"] /\ owed = [mode |-> "off"]
Init == InitProgram /\ edge = "off" /\ clockSeen = [mode |-> "off"] /\ GhostsOff
\* With the ghost edge age, in the run that delivers every kind of interrupt.
InitIrq ==
  InitProgram /\ sensor.codes = IntSrcCodes /\ edge = "none" /\ clockSeen = [mode |-> "off"]
              /\ GhostsOff
\* With the ghost of the clock readings, in the run that delivers every distance.
\* With the ghost of the poll-path appends, the requests left out.
InitPoll ==
  InitProgram /\ sensor.codes = IntSrcCodes /\ edge = "off" /\ clockSeen = [mode |-> "off"]
              /\ pollSeen = NoPollSeen /\ owed = [mode |-> "off"]
\* With the ghost of the interrupt entries awaiting their poll entry, the
\* sensor started, the requests left out.
InitLive ==
  InitProgram /\ AS3935_started /\ sensor.codes = IntSrcCodes
              /\ edge = "off" /\ clockSeen = [mode |-> "off"]
              /\ pollSeen = [mode |-> "off"] /\ owed = [mode |-> "on", codes |-> {}]
InitClock ==
  InitProgram /\ sensor.distances = Distances /\ edge = "off"
              /\ clockSeen = [mode |-> "up", last |-> 0] /\ GhostsOff

(***************************************************************************)
(* The queries applied to any history.  The program is met before a        *)
(* request, after lightning interrupts only (each entry has event 8 and    *)
(* irq set), the last poll not yet due: the sensor has reported any        *)
(* distances and the clock has taken any values between the appends.       *)
(***************************************************************************)
\* lightning.distanceToStorm() gives a 6-bit value.
AllDistances == 0 .. 63
\* Distances at and around the limits of the stats buckets.
QueryDistances == {5, 15, 16, 63}
QueryRecords(D) ==
  {LightningEvent(t, d, 7, 8, TRUE) : t \in ClockValues, d \in D}
\* One entry of any distance, or up to HISTORY_MAX entries of the
\* distances at the limits, in any order of their timestamps.
QueryHistories ==
  {<<>>} \cup {<<r>> : r \in QueryRecords(AllDistances)}
         \cup UNION {[1..n -> QueryRecords(QueryDistances)] : n \in 2..HISTORY_MAX}

InitQuery ==
  /\ pc = "handleClient"
  /\ irqFlag = FALSE
  /\ AS3935_started = TRUE
  /\ sensor = [codes |-> {0, 8}, distances |-> AllDistances]
  /\ history \in QueryHistories
  /\ AS3935_irq = (history # <<>>)
  /\ lastDistance = IF history = <<>> THEN DISTANCE_INIT ELSE history[Len(history)].distance
  /\ lastEnergy = IF history = <<>> THEN 0 ELSE history[Len(history)].energy
  /\ lastEventTs = IF history = <<>> THEN 0 ELSE history[Len(history)].ts
  /\ lastEvent = IF history = <<>> THEN 0 ELSE history[Len(history)].event
  /\ tLastPoll = <<0, 0>>
  /\ leds = setLedsForDistance(lastDistance)
  /\ now = 0
  /\ intSrc = 0
  /\ request = Idle
  /\ response = NoResponse
  /\ polledAt = <<0, 0>>
  /\ dropped = FALSE
  /\ edge = "off"
  /\ clockSeen = [mode |-> "off"]
  /\ GhostsOff

(***************************************************************************)
(* The indicator applied to any distance.  The program is met in its       *)
(* first cycle, the interrupt flag seen and cleared, before it reads the   *)
(* interrupt source; the sensor reports one distance of its range.         *)
(***************************************************************************)
LedRuns == {[codes |-> {0, 8}, distances |-> {d}] : d \in AllDistances}

InitLeds ==
  /\ pc = "readIrq"
  /\ irqFlag = FALSE
  /\ AS3935_irq = TRUE
  /\ AS3935_started = TRUE
  /\ sensor \in LedRuns
  /\ history = <<>>
  /\ lastDistance = DISTANCE_INIT
  /\ lastEnergy = 0
  /\ lastEventTs = 0
  /\ lastEvent = 0
  /\ tLastPoll = <<0, 0>>
  /\ leds = setLedsForDistance(DISTANCE_INIT)
  /\ now \in ClockValues
  /\ intSrc = 0
  /\ request = Idle
  /\ response = NoResponse
  /\ polledAt = <<0, 0>>
  /\ dropped = FALSE
  /\ edge = "off"
  /\ clockSeen = [mode |-> "off"]
  /\ GhostsOff

(***************************************************************************)
(* Environment.                                                            *)
(***************************************************************************)
\* The ISR also noting the trigger source itself.
onAs3935InterruptMarking ==
  /\ AS3935_started
  /\ irqFlag' = TRUE
  /\ AS3935_irq' = TRUE
  /\ edge' = IF edge = "none" THEN "cur" ELSE edge
  /\ UNCHANGED <<pc, AS3935_started, sensor, history, status, tLastPoll,
                 now, intSrc, request, response, polledAt, dropped, clockSeen, pollSeen, owed>>
\* The ISR attached before the sensor is known to have started.
onAs3935InterruptAlwaysAttached ==
  /\ irqFlag' = TRUE
  /\ edge' = IF edge = "none" THEN "cur" ELSE edge
  /\ UNCHANGED <<pc, AS3935_irq, AS3935_started, sensor, history, status, tLastPoll,
                 now, intSrc, request, response, polledAt, dropped, clockSeen, pollSeen, owed>>
\* The ISR, attached by initAS3935() only when the sensor started.
onAs3935Interrupt ==
  /\ AS3935_started
  /\ irqFlag' = TRUE
  /\ edge' = IF edge = "none" THEN "cur" ELSE edge
  /\ UNCHANGED <<pc, AS3935_irq, AS3935_started, sensor, history, status, tLastPoll,
                 now, intSrc, request, response, polledAt, dropped, clockSeen, pollSeen, owed>>

(***************************************************************************)
(* server.handleClient(): no request, or one request served.               *)
(***************************************************************************)
NoRequest ==
  /\ pc = "handleClient"
  /\ pc' = "trim"
  /\ request' = Idle
  /\ response' = NoResponse
  /\ polledAt' = <<0, 0>>
  /\ dropped' = FALSE
  /\ UNCHANGED <<irqFlag, AS3935_irq, AS3935_started, sensor, history, status,
                 tLastPoll, now, intSrc, edge, clockSeen, pollSeen, owed>>

handleEvents ==
  /\ pc = "handleClient"
  /\ \E arg \in SinceArgs, clock \in ClockValues :
       LET sinceSec == eventsSinceSec(arg)
           cutoff == clock - sinceSec
       IN /\ request' = [path |-> "/api/events", since |-> arg]
          /\ response' = [kind |-> "events", now |-> clock, since |-> sinceSec,
                          events |-> recentEvents(history, cutoff)]
  /\ pc' = "trim"
  /\ polledAt' = <<0, 0>>
  /\ dropped' = FALSE
  /\ UNCHANGED <<irqFlag, AS3935_irq, AS3935_started, sensor, history, status,
                 tLastPoll, now, intSrc, edge, clockSeen, pollSeen, owed>>

\* A query that prunes the history as it answers.
handleStatsEvicting ==
  /\ pc = "handleClient"
  /\ \E range \in RangeArgs, clock \in ClockValues :
       LET sinceSec == statsSinceSec(range)
           cutoff == clock - sinceSec
           s == statsFrom(history, NoStats, cutoff)
       IN /\ request' = [path |-> "/api/stats", range |-> range]
          /\ response' = [kind |-> "stats", now |-> clock, range_s |-> sinceSec,
                          count |-> s.count, near |-> s.near, mid |-> s.mid,
                          far |-> s.far, oor |-> s.oor]
          /\ history' = trimHistoryOlderThan(history, cutoff)
  /\ pc' = "trim"
  /\ polledAt' = <<0, 0>>
  /\ dropped' = FALSE
  /\ UNCHANGED <<irqFlag, AS3935_irq, AS3935_started, sensor, status,
                 tLastPoll, now, intSrc, edge, clockSeen, pollSeen, owed>>

handleStats ==
  /\ pc = "handleClient"
  /\ \E range \in RangeArgs, clock \in ClockValues :
       LET sinceSec == statsSinceSec(range)
           cutoff == clock - sinceSec
           s == statsFrom(history, NoStats, cutoff)
       IN /\ request' = [path |-> "/api/stats", range |-> range]
          /\ response' = [kind |-> "stats", now |-> clock, range_s |-> sinceSec,
                          count |-> s.count, near |-> s.near, mid |-> s.mid,
                          far |-> s.far, oor |-> s.oor]
  /\ pc' = "trim"
  /\ polledAt' = <<0, 0>>
  /\ dropped' = FALSE
  /\ UNCHANGED <<irqFlag, AS3935_irq, AS3935_started, sensor, history, status,
                 tLastPoll, now, intSrc, edge, clockSeen, pollSeen, owed>>

handleLive ==
  /\ pc = "handleClient"
  /\ \E millis \in MillisValues :
       /\ request' = [path |-> "/api/live"]
       /\ response' = [kind |-> "live",
                       last_distance_km |-> lastDistance,
                       last_energy |-> lastEnergy,
                       last_event_ts |-> lastEventTs,
                       last_event |-> lastEvent,
                       last_event_trigger |-> IF AS3935_irq THEN "Interrupt" ELSE "Polling",
                       uptime_s |-> uptimeSeconds(millis),
                       started |-> AS3935_started,
                       leds |-> leds]
  /\ pc' = "trim"
  /\ polledAt' = <<0, 0>>
  /\ dropped' = FALSE
  /\ UNCHANGED <<irqFlag, AS3935_irq, AS3935_started, sensor, history, status,
                 tLastPoll, now, intSrc, edge, clockSeen, pollSeen, owed>>

(***************************************************************************)
(* loop()                                                                  *)
(***************************************************************************)
\* time_t now = time(nullptr); trimHistoryOlderThan(now - 24*3600);
\* AS3935_irq = irqFlag;            and then the flag holds flagAfter
TrimAndCopyIrqThen(flagAfter) ==
  /\ pc = "trim"
  /\ \E clock \in ClockValues : now' = clock
  /\ history' = trimHistoryOlderThan(history, now' - RETENTION_SECONDS)
  /\ AS3935_irq' = irqFlag
  /\ irqFlag' = flagAfter
  /\ request' = Idle
  /\ response' = NoResponse
  /\ clockSeen' = SeeClock(clockSeen, now')
  /\ pc' = "testIrq"
  /\ UNCHANGED <<AS3935_started, sensor, status, tLastPoll, intSrc, polledAt, ghosts,
                 pollSeen, owed>>

\* The flag read and cleared at once, where it is copied.
TrimAndCopyIrqClearing == TrimAndCopyIrqThen(FALSE)
TrimAndCopyIrq == TrimAndCopyIrqThen(irqFlag)

\* if (irqFlag)
TestIrq ==
  /\ pc = "testIrq"
  /\ pc' = IF irqFlag THEN "clearIrq" ELSE "poll"
  /\ UNCHANGED <<irqFlag, AS3935_irq, AS3935_started, sensor, history, status,
                 tLastPoll, now, intSrc, request, response, polledAt, ghosts, clockSeen, pollSeen, owed>>

\* noInterrupts(); irqFlag = false; interrupts();
ClearIrq ==
  /\ pc = "clearIrq"
  /\ irqFlag' = FALSE
  /\ pc' = "readIrq"
  /\ UNCHANGED <<AS3935_irq, AS3935_started, sensor, history, status, tLastPoll, now,
                 intSrc, request, response, polledAt, ghosts, clockSeen, pollSeen, owed>>

\* int intSrc = lightning.readInterruptReg(); lastEvent = intSrc;
\* if (recorded) { dist = ...; energy = ...; lastDistance = dist; lastEnergy = energy;
\*   lastEventTs = now; setLedsForDistance(dist);
\*   history.push_back({now, dist, energy, lastEvent, AS3935_irq}); }
ReadAndRecordIf(Recorded) ==
  /\ pc = "readIrq"
  /\ \E code \in sensor.codes :
       /\ intSrc' = code
       /\ lastEvent' = code % UINT8
       /\ IF code \in Recorded
            THEN \E dist \in sensor.distances, energy \in Energies :
                   /\ lastDistance' = dist
                   /\ lastEnergy' = energy
                   /\ lastEventTs' = now
                   /\ leds' = setLedsForDistance(dist)
                   /\ history' = pushHistory(history,
                        LightningEvent(now, dist, energy, lastEvent', AS3935_irq))
                   /\ dropped' = (Len(history) >= HISTORY_MAX)
                   /\ owed' = Owe(owed, lastEvent')
            ELSE UNCHANGED <<lastDistance, lastEnergy, lastEventTs, leds,
                             history, dropped, owed>>
       /\ pollSeen' = NoteRead(pollSeen, code)
  /\ edge' = IF edge = "off" THEN "off" ELSE "none"
  /\ pc' = "poll"
  /\ UNCHANGED <<irqFlag, AS3935_irq, AS3935_started, sensor, tLastPoll, now,
                 request, response, polledAt, clockSeen>>

\* if (intSrc & 0x08): lightning only.
ReadAndRecordLightningOnly ==
  ReadAndRecordIf({c \in IntSrcCodes : (c \div 8) % 2 = 1})
\* if (intSrc != 0x00)
ReadAndRecord == ReadAndRecordIf({c \in IntSrcCodes : c # 0})

\* if (millis() - tLastPoll > 10000) { if (lastEvent > 0) {
\*   tLastPoll = millis(); dist = ...; energy = ...; lastDistance = dist;
\*   lastEnergy = energy; setLedsForDistance(dist);
\*   history.push_back({now, dist, energy, lastEvent, AS3935_irq});
\*   lastEvent = 0 (when resets); } }
\* and loop() returns: its locals are gone, the cycle is over.
PollThen(resets) ==
  /\ pc = "poll"
  /\ \E millis \in MillisValues :
       /\ polledAt' = millis
       /\ IF pollDue(millis, tLastPoll) /\ lastEvent > 0
            THEN /\ \E later \in MillisValues : tLastPoll' = later
                 /\ \E dist \in sensor.distances, energy \in Energies :
                      /\ lastDistance' = dist
                      /\ lastEnergy' = energy
                      /\ leds' = setLedsForDistance(dist)
                      /\ history' = pushHistory(history,
                           LightningEvent(now, dist, energy, lastEvent, AS3935_irq))
                 /\ dropped' = (dropped \/ Len(history) >= HISTORY_MAX)
                 /\ lastEvent' = IF resets THEN 0 ELSE lastEvent
                 /\ pollSeen' = NotePoll(pollSeen, millis, tLastPoll')
                 /\ owed' = Confirm(owed, lastEvent)
            ELSE UNCHANGED <<tLastPoll, lastDistance, lastEnergy, leds,
                             history, dropped, lastEvent, pollSeen, owed>>
  /\ pc' = "handleClient"
  /\ now' = 0
  /\ intSrc' = 0
  /\ edge' = AgeEdge(edge)
  /\ UNCHANGED <<irqFlag, AS3935_irq, AS3935_started, sensor, lastEventTs,
                 request, response, clockSeen>>

\* The event code left standing after the poll.
PollKeepingEvent == PollThen(FALSE)
Poll == PollThen(TRUE)

Next ==
  \/ onAs3935Interrupt
  \/ NoRequest
  \/ handleLive
  \/ handleEvents
  \/ handleStats
  \/ TrimAndCopyIrq
  \/ TestIrq
  \/ ClearIrq
  \/ ReadAndRecord
  \/ Poll

\* One request served, and the eviction that follows it in loop().
NextQuery ==
  \/ handleLive
  \/ handleEvents
  \/ handleStats
  \/ TrimAndCopyIrq

Spec == Init /\ [][Next]_vars
SpecQuery == InitQuery /\ [][NextQuery]_vars
SpecClock == InitClock /\ [][Next]_vars

\* The two places of loop() that set the LEDs.
NextLeds ==
  \/ ReadAndRecord
  \/ Poll

SpecLeds == InitLeds /\ [][NextLeds]_vars
SpecIrq == InitIrq /\ [][Next]_vars

\* loop() and the ISR with no request pending at server.handleClient().
NextCycle ==
  \/ onAs3935Interrupt
  \/ NoRequest
  \/ TrimAndCopyIrq
  \/ TestIrq
  \/ ClearIrq
  \/ ReadAndRecord
  \/ Poll

SpecPoll == InitPoll /\ [][NextCycle]_vars

\* loop() is called again and again: the step it is at is taken.
LoopStep ==
  \/ NoRequest
  \/ TrimAndCopyIrq
  \/ TestIrq
  \/ ClearIrq
  \/ ReadAndRecord
  \/ Poll
\* The tick counter advances: the test of line 727, made in every cycle,
\* reads again and again a tick more than 10000 after tLastPoll.
DuePoll == Poll /\ pollDue(polledAt', tLastPoll)
\* Interrupts are the environment's: none is ever required.
SpecLive ==
  InitLive /\ [][NextCycle]_vars /\ WF_vars(LoopStep) /\ SF_vars(DuePoll)

(***************************************************************************)
(* Helpers of the properties.                                              *)
(***************************************************************************)
Min(a, b) == IF a <= b THEN a ELSE b
AllButNewest(h) == SubSeq(h, 1, Len(h) - 1)
Newest(h) == h[Len(h)]
LastRecords(h, n) == SubSeq(h, Len(h) - n + 1, Len(h))
Reverse(q) == [i \in 1..Len(q) |-> q[Len(q) + 1 - i]]
NonDecreasingTs(q) == \A i \in 1..Len(q) : \A j \in i..Len(q) : q[i].ts <= q[j].ts
NonIncreasingTs(q) == \A i \in 1..Len(q) : \A j \in i..Len(q) : q[i].ts >= q[j].ts
\* h2 is h1 with one record added at the tail, the head dropped or not.
OneAppended(h1, h2) ==
  /\ h2 # <<>>
  /\ \/ SubSeq(h2, 1, Len(h2) - 1) = h1
     \/ h1 # <<>> /\ SubSeq(h2, 1, Len(h2) - 1) = Tail(h1)
\* Steps of loop().
TrimStep == pc = "trim" /\ pc' = "testIrq"
ReadStep == pc = "readIrq" /\ pc' = "poll"
PollStep == pc = "poll" /\ pc' = "handleClient"
\* server.handleClient() returns, a request served or none.
HandleClientStep == pc = "handleClient" /\ pc' = "trim"
\* The steps that append: a nonzero source code read, a due poll with an
\* event code standing.
InterruptAppends == ReadStep /\ intSrc' # 0
PollAppends == PollStep /\ pollDue(polledAt', tLastPoll) /\ lastEvent # 0

(***************************************************************************)
(* Properties.                                                             *)
(***************************************************************************)

\* C1: in every reachable state, whatever the interleaving of interrupt-path
\* appends, poll-path appends and evictions, the history holds at most
\* HISTORY_MAX entries.
C1_HistoryBounded == Len(history) <= HISTORY_MAX
\* A record was appended to a full history, and the history is full still.
C1_Witness == dropped /\ Len(history) = HISTORY_MAX

\* C2: every interrupt edge is followed by a read of the interrupt-source
\* register in the cycle it arrives in or in the next one (the ghost edge never
\* gets "lost"), and while an edge waits for that read the flag is set or the
\* read is the very next step of loop(): no edge leaves the flag cleared
\* without a later source read.
C2_EdgeIsRead ==
  /\ edge # "lost"
  /\ edge \in {"cur", "prev"} => (irqFlag \/ pc = "readIrq")
\* An edge arrived after the clear and before the source read, and was read.
C2_Witness == pc = "poll" /\ irqFlag /\ edge = "none"

\* C3: after trimHistoryOlderThan(cutoff) no remaining entry has ts < cutoff,
\* and no entry with ts >= cutoff was removed (what was removed is a prefix of
\* entries with ts < cutoff).
C3_EvictExact ==
  [][TrimStep =>
       LET cutoff == now' - RETENTION_SECONDS
       IN /\ \A i \in 1..Len(history') : history'[i].ts >= cutoff
          /\ \E k \in 0..Len(history) :
               /\ history' = SubSeq(history, k + 1, Len(history))
               /\ \A i \in 1..k : history[i].ts < cutoff]_vars

\* C4: at the end of every cycle no entry of the history is older than the
\* retention window, for the clock value read in that cycle.
C4_NothingStaleAtCycleEnd ==
  [][PollStep =>
       \A i \in 1..Len(history') : history'[i].ts >= now - RETENTION_SECONDS]_vars

\* C5 as stated: the entries handleEvents returns are in non-increasing
\* timestamp order, and every one satisfies ts >= now - s.
C5_Original ==
  response.kind = "events" =>
    /\ NonIncreasingTs(response.events)
    /\ \A i \in 1..Len(response.events) :
         response.events[i].ts >= response.now - response.since
\* C5 as amended: the entries handleEvents returns are the newest entries of
\* the history in reverse storage order, every one satisfies ts >= now - s,
\* and they are in non-increasing timestamp order whenever the stored
\* timestamps are non-decreasing.
C5_ReverseStorageOrder ==
  response.kind = "events" =>
    /\ Len(response.events) <= Len(history)
    /\ response.events = Reverse(LastRecords(history, Len(response.events)))
    /\ \A i \in 1..Len(response.events) :
         response.events[i].ts >= response.now - response.since
    /\ NonDecreasingTs(history) => NonIncreasingTs(response.events)
\* Two entries of different age and distance returned, the newer first.
C5_Witness ==
  /\ response.kind = "events"
  /\ Len(response.events) = 2
  /\ response.events[1].ts > response.events[2].ts
  /\ response.events[1].distance # response.events[2].distance

\* C6: handleEvents returns every entry of the history with
\* ts >= now - sinceSeconds.
C6_AllInWindowReturned ==
  response.kind = "events" =>
    \A i \in 1..Len(history) :
      history[i].ts >= response.now - response.since =>
        \E j \in 1..Len(response.events) : response.events[j] = history[i]

\* C7: an append never rejects a record and at capacity removes exactly the
\* oldest entry: every appending step puts its record at the tail, and what
\* precedes it is the history as it was, without its head if it was full and
\* whole if it was not; so n appends with no eviction between them leave
\* the last min(n, HISTORY_MAX) records appended, in insertion order, unmodified.
C7_DropOldest ==
  [][(InterruptAppends \/ PollAppends) =>
       /\ Len(history') = Min(Len(history) + 1, HISTORY_MAX)
       /\ Newest(history') =
            LightningEvent(now, lastDistance', lastEnergy',
                           IF InterruptAppends THEN intSrc' ELSE lastEvent,
                           AS3935_irq)
       /\ AllButNewest(history') =
            IF Len(history) >= HISTORY_MAX THEN Tail(history) ELSE history]_vars
\* The interrupt path appended to a full history: its record is the tail, and
\* the entry before it differs from it.
C7_Witness ==
  /\ pc = "poll"
  /\ dropped
  /\ intSrc # 0
  /\ Len(history) = HISTORY_MAX
  /\ Newest(history) = LightningEvent(now, lastDistance, lastEnergy, intSrc, AS3935_irq)
  /\ history[Len(history) - 1] # Newest(history)

\* C8: the interrupt path appends exactly one entry if the source code read is
\* nonzero, whatever the code: stamped with the cycle's clock reading, carrying
\* the sampled distance and energy and the code, and it updates last distance,
\* energy and timestamp; if the code is zero it appends nothing and leaves last
\* distance, energy and timestamp unchanged.
C8_InterruptPathRecords ==
  [][ReadStep =>
       IF intSrc' # 0
         THEN /\ OneAppended(history, history')
              /\ Len(history') = Min(Len(history) + 1, HISTORY_MAX)
              /\ Newest(history').ts = now
              /\ Newest(history').event = intSrc'
              /\ Newest(history').distance = lastDistance'
              /\ Newest(history').energy = lastEnergy'
              /\ lastDistance' \in Distances
              /\ lastEnergy' \in Energies
              /\ lastEventTs' = now
         ELSE UNCHANGED <<history, lastDistance, lastEnergy, lastEventTs>>]_vars
\* A noise interrupt (code 1) was recorded with a distance that is new.
C8_Witness ==
  /\ pc = "poll"
  /\ intSrc = 1
  /\ history # <<>>
  /\ Newest(history) = LightningEvent(now, 5, 7, 1, AS3935_irq)
  /\ lastDistance = 5
  /\ lastEventTs = now

C10_InterruptEntriesMarked ==
  [][InterruptAppends => Newest(history').irq = TRUE]_vars

\* C11: every entry the poll path appends has irq = FALSE, also when the poll
\* runs in the cycle in which an interrupt was processed.
C11_PollEntriesUnmarked ==
  [][PollAppends => Newest(history').irq = FALSE]_vars

\* C12: a delivery of the interrupt (the only step that leaves loop() where
\* it is) sets the flag and changes nothing else of the program: not the
\* history, the status fields, the trigger-source field or the poll timer.
C12_IsrOnlySetsFlag ==
  [][pc' = pc =>
       /\ irqFlag'
       /\ UNCHANGED <<history, status, AS3935_irq, AS3935_started, tLastPoll,
                      now, intSrc, request, response>>]_vars
\* The interrupt was delivered between the clear and the source read, with
\* entries in the history and the poll timer set, the trigger-source field clear.
C12_Witness ==
  /\ pc = "readIrq"
  /\ irqFlag
  /\ ~AS3935_irq
  /\ history # <<>>
  /\ tLastPoll # <<0, 0>>

\* C13: serving a query (live status, recent events, stats) leaves the
\* history, the status fields, the interrupt flag, the trigger-source field
\* and the poll timer unchanged, and the history changes only in the
\* eviction, the interrupt path and the poll path of the main cycle.
C13_QueriesReadOnly ==
  [][/\ HandleClientStep =>
          UNCHANGED <<history, status, irqFlag, AS3935_irq, AS3935_started, tLastPoll>>
     /\ history' # history => (TrimStep \/ ReadStep \/ PollStep)]_vars
\* A stats query was answered over a history with an entry in its window,
\* while an interrupt was pending and the poll timer had been set.
C13_Witness ==
  /\ response.kind = "stats"
  /\ response.count > 0
  /\ Len(history) >= response.count
  /\ irqFlag
  /\ tLastPoll # <<0, 0>>

\* The classification of the specification: 63 out of range, 0..5 near,
\* 6..15 mid, 16..62 far.
specifiedBucket(d) ==
  CASE d = 63 -> "oor"
    [] d \in 0..5 -> "near"
    [] d \in 6..15 -> "mid"
    [] d \in 16..62 -> "far"
\* The entries of the history in the window of the stats reply r that the
\* specification puts into bucket b.
InWindowOf(r, b) ==
  {i \in 1..Len(history) :
     /\ history[i].ts >= r.now - r.range_s
     /\ specifiedBucket(history[i].distance) = b}

\* C14: for every history and every window, the four bucket counts of a
\* stats reply (near, mid, far, out of range) sum to its total count.
C14_BucketsSumToCount ==
  response.kind = "stats" =>
    response.near + response.mid + response.far + response.oor = response.count
\* A stats reply counting two entries, one in the mid and one in the far bucket.
C14_Witness ==
  /\ response.kind = "stats"
  /\ response.count = 2
  /\ response.mid = 1
  /\ response.far = 1

\* C15: stats puts every distance 0..63 into the bucket the specification
\* gives: each bucket count of a reply is the number of entries in the window
\* whose distance the specification assigns to that bucket.
C15_BucketsAsSpecified ==
  response.kind = "stats" =>
    /\ response.near = Cardinality(InWindowOf(response, "near"))
    /\ response.mid = Cardinality(InWindowOf(response, "mid"))
    /\ response.far = Cardinality(InWindowOf(response, "far"))
    /\ response.oor = Cardinality(InWindowOf(response, "oor"))
\* An entry at distance 62, the last one below out of range, was counted far.
C15_Witness ==
  /\ response.kind = "stats"
  /\ Len(history) = 1
  /\ history[1].distance = 62
  /\ response.far = 1

\* C16: evicting twice with the same cutoff and no append in between leaves
\* what the first eviction left, whatever the history holds (timestamps out
\* of order included): evicting again from the history an eviction has
\* produced changes nothing.
C16_EvictIdempotent ==
  [][TrimStep =>
       trimHistoryOlderThan(history', now' - RETENTION_SECONDS) = history']_vars
\* The eviction was applied to timestamps out of order: it stopped at a head
\* entry inside the window and left an older entry behind it.
C16_Witness ==
  /\ pc = "testIrq"
  /\ Len(history) = HISTORY_MAX
  /\ history[1].ts >= now - RETENTION_SECONDS
  /\ history[Len(history)].ts < now - RETENTION_SECONDS

\* C17: if the sensor failed to initialise, then in every state the history
\* is empty and the status holds started = FALSE, last distance 63, last
\* energy 0, last event code 0 and last event timestamp 0; no cycle records
\* an event, and the queries answer: with these values, no events, a count of 0.
C17_SensorAbsent ==
  ~AS3935_started =>
    /\ history = <<>>
    /\ lastDistance = 63
    /\ lastEnergy = 0
    /\ lastEvent = 0
    /\ lastEventTs = 0
    /\ ~irqFlag
    /\ response.kind = "live" =>
         /\ response.started = FALSE
         /\ response.last_distance_km = 63
         /\ response.last_energy = 0
         /\ response.last_event = 0
         /\ response.last_event_ts = 0
    /\ response.kind = "events" => response.events = <<>>
    /\ response.kind = "stats" => response.count = 0
\* Without the sensor, a live query was answered when the tick counter had
\* all but run through its 32 bits.
C17_Witness ==
  /\ ~AS3935_started
  /\ response.kind = "live"
  /\ response.started = FALSE
  /\ response.uptime_s > 0

\* C18: a recent-events query whose window argument is missing or not
\* positive is answered with the default window of 3600 s, and one with a
\* positive argument with that window; a stats query is answered with
\* 86400 s for the range "day" and with 3600 s for every other or missing
\* range; each gets the reply of its kind, never an error.
C18_DefaultWindows ==
  /\ request.path = "/api/events" =>
       /\ response.kind = "events"
       /\ response.since =
            IF request.since = NoArg \/ request.since <= 0 THEN 3600 ELSE request.since
  /\ request.path = "/api/stats" =>
       /\ response.kind = "stats"
       /\ response.range_s = IF request.range = "day" THEN 86400 ELSE 3600
\* A query with a negative window was answered with the entries of the last hour.
C18_Witness ==
  /\ request.path = "/api/events"
  /\ request.since < 0
  /\ request.since # NoArg
  /\ response.since = 3600
  /\ response.events # <<>>

\* C19: as long as the clock readings of successive cycles have never
\* decreased, the timestamps of the history are non-decreasing from head to
\* tail.
C19_SortedUnderMonotoneClock ==
  clockSeen.mode = "up" => NonDecreasingTs(history)
\* The clock never went back, and the history holds a full set of entries,
\* its newest later than its oldest.
C19_Witness ==
  /\ clockSeen.mode = "up"
  /\ Len(history) = HISTORY_MAX
  /\ history[1].ts < history[Len(history)].ts

\* The table of the documentation (LED-Logik): distance, and the columns
\* (1 green, 2 green, 3 yellow, 4 red) marked "on"; 63 is "Out of range",
\* 1 is "Storm is Overhead".
documentedTable ==
  { <<63, {}>>,
    <<40, {1}>>, <<37, {2}>>, <<34, {1, 2}>>,
    <<31, {3}>>, <<27, {1, 3}>>, <<24, {2, 3}>>, <<20, {1, 2, 3}>>,
    <<17, {4}>>, <<14, {1, 4}>>, <<12, {2, 4}>>, <<10, {1, 2, 4}>>,
    <<8, {3, 4}>>, <<6, {1, 3, 4}>>, <<5, {2, 3, 4}>>,
    <<1, {1, 2, 3, 4}>> }
\* The LEDs the documentation lights for a distance: those of its row, none
\* for a distance without a row.
documentedLeds(km) ==
  LET lit == UNION {row[2] : row \in {r \in documentedTable : r[1] = km}}
  IN [i \in 1..4 |-> i \in lit]

withinAfter(m, t, k) ==
  \/ m[1] = t[1] /\ m[2] >= t[2] /\ m[2] - t[2] <= k
  \/ m[1] = (t[1] + 1) % HALF /\ m[2] < t[2] /\ m[2] + HALF - t[2] <= k

\* C21: two consecutive poll-path appends are more than 10 000 ticks apart:
\* the tick read by the test of the later one (line 727) is more than 10 000
\* ticks after the tick taken at the earlier one (line 731), counted on the
\* 32-bit ring.
C21_PollsSeparated ==
  pollSeen.mode = "on" /\ pollSeen.polls = 2
    => ~withinAfter(pollSeen.test, pollSeen.prev, 10000)
\* The earlier append took the last tick before the wrap, the later one
\* read tick 10 000: 10 001 ticks apart.
C21_Witness ==
  /\ pollSeen.mode = "on"
  /\ pollSeen.polls = 2
  /\ pollSeen.prev = <<HALF - 1, HALF - 1>>
  /\ pollSeen.test = <<0, POLL_INTERVAL_MS>>

\* C22: at most one poll-path append per recorded interrupt event: every
\* poll-path append, and so every one that follows another, comes after a
\* source read of the interrupt path that returned a nonzero code and that
\* no earlier poll-path append has used.
C22_OnePollPerEvent ==
  [][PollAppends /\ pollSeen.mode = "on" => pollSeen.read]_vars
\* A second poll-path append has just happened, and it used up the source
\* read that came after the first.
C22_Witness ==
  /\ pollSeen.mode = "on"
  /\ pollSeen.polls = 2
  /\ ~pollSeen.read
  /\ pc = "handleClient"
  /\ pollDue(polledAt, pollSeen.prev)
  /\ lastEvent = 0
  /\ Len(history) = HISTORY_MAX

\* C23: under fair execution of the main cycle and an advancing tick
\* counter, every entry appended by the interrupt path is eventually followed
\* by a poll-path entry carrying the same event code, whatever interrupts
\* arrive in between (a source read of zero included).
C23_EveryInterruptEntryConfirmed ==
  \A c \in IntSrcCodes \ {0} :
    (owed.mode = "on" /\ c \in owed.codes) ~> (c \notin owed.codes)

\* C24: whenever the history is non-empty, the last distance and the last
\* energy of the status are the distance and the energy of its newest (tail)
\* entry.
C24_StatusIsNewestEntry ==
  history # <<>> =>
    /\ lastDistance = Newest(history).distance
    /\ lastEnergy = Newest(history).energy
\* The poll path has appended an out-of-range reading after a near strike,
\* the oldest entry dropped for it: the status shows the poll's reading.
C24_Witness ==
  /\ pc = "handleClient"
  /\ dropped
  /\ Len(history) = HISTORY_MAX
  /\ history[Len(history) - 1].distance = 5
  /\ Newest(history).distance = 63
  /\ lastDistance = 63
  /\ lastEvent = 0
  /\ pollDue(polledAt, <<0, 0>>)

\* C25: for the history as it stands, any clock value and either window,
\* the count of the stats reply equals the number of entries of the events
\* reply, whatever the order of the stored timestamps.
C25_StatsCountIsEventsCount ==
  \A clock \in ClockValues, w \in {statsSinceSec(range) : range \in RangeArgs} :
    statsFrom(history, NoStats, clock - w).count
      = Len(recentEvents(history, clock - w))

====
